---------------------------- MODULE Spec2Model ----------------------------
(***************************************************************************)
(* CycloneDX SBOM export of a uv lock                                      *)
(* (crates/uv-resolver/src/lock/export/sbom.rs).                           *)
(*                                                                         *)
(* Strings built by format! are sequences of text fragments, joined by     *)
(* \o; a URL or a path is the sequence of its characters.  Option<T> is a  *)
(* sequence of length 0 (None) or 1 (Some).  Result<T, LockError> is a     *)
(* record [ok, val].                                                       *)
(***************************************************************************)
EXTENDS Naturals, Sequences, FiniteSets, TLC

\* Longest filtered package list (nodes) that is enumerated.
MaxNodes == 3

\* Latest wall-clock instant a timestamp read can return.
MaxTime == 1

\* Longest filtered package list that is exported twice.
MaxRepeatNodes == 2

None == << >>
Some(x) == << x >>

Ok(x) == [ok |-> TRUE, val |-> x]
Err(e) == [ok |-> FALSE, val |-> e]

Range(s) == {s[i] : i \in 1..Len(s)}

-----------------------------------------------------------------------------
(* The lock snapshot: packages, sources, dependency references.            *)

NoVersion == None

Source(kind, loc) == [kind |-> kind, loc |-> loc]

PackageId(name, version, source) ==
    [name |-> name, version |-> version, source |-> source]

GitUrl == << "g", "i", "t", ":", "/", "/", "h", ".", "i", "o", "/", "r" >>
NotAUrl == << "n", "o", "u", "r", "l" >>
MemberPath == << "p", "k", "g", "s", "/", "u" >>

IdApp == PackageId("app", NoVersion, Source("editable", << >>))
IdLibRegistry == PackageId("lib", Some("1"), Source("registry", << >>))
IdLibGit == PackageId("lib", Some("1"), Source("git", GitUrl))
IdLibDirect == PackageId("lib", Some("2"), Source("direct", NotAUrl))
IdUtil == PackageId("util", Some("2"), Source("directory", MemberPath))

Sha256 == [alg |-> "sha256", digest |-> "sha256:ab"]
Md5 == [alg |-> "md5", digest |-> "md5:cd"]

Package(id, hashes, dependencies) ==
    [id |-> id, hashes |-> hashes, dependencies |-> dependencies]

\* The packages a lock is drawn from, in the lock's (sorted) package order.
Universe ==
    << Package(IdApp, << >>, << IdLibGit, IdUtil, IdLibRegistry >>),
       Package(IdLibRegistry, << Sha256, Md5 >>, << IdUtil >>),
       Package(IdLibGit, << >>, << IdLibDirect, IdUtil >>),
       Package(IdLibDirect, << Sha256 >>, << >>),
       Package(IdUtil, << >>, << IdLibRegistry, IdApp >>) >>

Names == {Universe[i].id.name : i \in 1..Len(Universe)}

RECURSIVE SubSeqOf(_, _)
SubSeqOf(s, keep) ==
    IF s = << >> THEN << >>
    ELSE (IF Len(s) \in keep THEN SubSeqOf(SubSeq(s, 1, Len(s) - 1), keep) \o << s[Len(s)] >>
          ELSE SubSeqOf(SubSeq(s, 1, Len(s) - 1), keep))

\* Every lock over the universe: its packages (distinct ids, sorted) and its
\* workspace member names.
Locks ==
    {[packages |-> SubSeqOf(Universe, keep), members |-> m] :
        keep \in SUBSET (1..Len(Universe)), m \in SUBSET Names}

InjectiveSeqs(S, n) ==
    UNION {{s \in [1..k -> S] : \A i, j \in 1..k : s[i] = s[j] => i = j} : k \in 0..n}

-----------------------------------------------------------------------------
(* Lock lookups (crates/uv-resolver/src/lock/mod.rs).                      *)

\* Lock::find_by_name: Err when several packages carry the name, Ok(None)
\* when none does.
find_by_name(lock, name) ==
    LET hits == SelectSeq(lock.packages, LAMBDA p : p.id.name = name)
    IN  IF Len(hits) > 1 THEN Err("found multiple packages")
        ELSE IF hits = << >> THEN Ok(None)
        ELSE Ok(Some(hits[1]))

\* Lock::root: the first package whose source is editable or virtual at the
\* empty path.
root(lock) ==
    LET hits == SelectSeq(lock.packages,
                    LAMBDA p : /\ p.id.source.kind \in {"editable", "virtual"}
                               /\ p.id.source.loc = << >>)
    IN  IF hits = << >> THEN None ELSE Some(hits[1])

\* UrlString::to_url: a location without a scheme separator is no URL.
to_url(loc) ==
    IF \E i \in 2..Len(loc) : loc[i] = ":" THEN Ok(loc) ELSE Err("SourceUrlError")

\* Result::ok followed by Option::flatten.
OkFlatten(r) == IF r.ok THEN r.val ELSE None

-----------------------------------------------------------------------------
(* Package-URL Builder.                                                    *)

Alphanumeric ==
    {"a", "b", "c", "d", "e", "f", "g", "h", "i", "j", "k", "l", "m", "n", "o",
     "p", "q", "r", "s", "t", "u", "v", "w", "x", "y", "z",
     "0", "1", "2", "3", "4", "5", "6", "7", "8", "9"}

\* percent_encoding::utf8_percent_encode(_, NON_ALPHANUMERIC), one character.
PercentEncodeChar(c) ==
    IF c \in Alphanumeric THEN c
    ELSE IF c = ":" THEN "%3A"
    ELSE IF c = "/" THEN "%2F"
    ELSE IF c = "." THEN "%2E"
    ELSE "%3F"

utf8_percent_encode(s) == [i \in 1..Len(s) |-> PercentEncodeChar(s[i])]

VersionStr(id) == IF id.version = None THEN "unknown" ELSE id.version[1]

\* format!("pkg:pypi/{}@{}", name, version)
PkgRef(id) == << "pkg:pypi/", id.name, "@", VersionStr(id) >>

create_purl_from_package(package) ==
    LET id == package.id
        url_str == to_url(id.source.loc)
    IN  CASE id.source.kind = "registry" -> Ok(PkgRef(id))
          [] id.source.kind = "git" ->
                IF url_str.ok
                THEN Ok(PkgRef(id) \o << "?vcs_url=" >> \o utf8_percent_encode(url_str.val))
                ELSE Err(url_str.val)
          [] id.source.kind = "direct" ->
                IF url_str.ok
                THEN Ok(PkgRef(id) \o << "?download_url=" >> \o utf8_percent_encode(url_str.val))
                ELSE Err(url_str.val)
          [] id.source.kind \in {"path", "directory", "editable"} -> Ok(PkgRef(id))
          [] id.source.kind = "virtual" -> Ok(PkgRef(id))

-----------------------------------------------------------------------------
(* Component Builder.                                                      *)

Property(name, value) == [name |-> name, value |-> value]

Component(bom_ref, type, name, version, description, hashes, purl, properties) ==
    [bom_ref |-> bom_ref, type |-> type, name |-> name, version |-> version,
     description |-> description, hashes |-> hashes, purl |-> purl,
     properties |-> properties]

\* create_main_component with the timestamped reference as the last-resort
\* name instead of the literal "workspace".
create_main_component_named_by_ref(target, bom_ref) ==
    LET name == IF target.project_name # None THEN target.project_name[1]
                ELSE IF target.install_name # None THEN target.install_name[1]
                ELSE bom_ref
    IN  Ok(Component(bom_ref, "application", name, None,
                     Some(<< "uv workspace or project" >>), None, None, None))

create_main_component(target, bom_ref) ==
    LET name == IF target.project_name # None THEN target.project_name[1]
                ELSE IF target.install_name # None THEN target.install_name[1]
                ELSE "workspace"
    IN  Ok(Component(bom_ref, "application", name, None,
                     Some(<< "uv workspace or project" >>), None, None, None))

extract_workspace_relative_path(package) ==
    IF package.id.source.kind \in {"path", "directory", "editable"}
    THEN Some(<< "./" >> \o package.id.source.loc)
    ELSE None

create_workspace_member_component(package) ==
    LET bom_ref == PkgRef(package.id)
        relative_path == extract_workspace_relative_path(package)
        properties ==
            << Property("uv:workspace_member", "true"),
               Property("uv:source_type", "workspace") >>
            \o (IF relative_path # None
                THEN << Property("uv:workspace_path", relative_path[1]) >>
                ELSE << >>)
        purl == create_purl_from_package(package)
    IN  IF ~purl.ok THEN Err(purl.val)
        ELSE Ok(Component(bom_ref, "library", package.id.name, package.id.version,
                          Some(<< "Workspace member: ", package.id.name >>),
                          None, Some(purl.val), Some(properties)))

create_single_project_component(package) ==
    LET bom_ref == PkgRef(package.id)
        purl == create_purl_from_package(package)
    IN  IF ~purl.ok THEN Err(purl.val)
        ELSE Ok(Component(bom_ref, "library", package.id.name, package.id.version,
                          Some(<< "Single project: ", package.id.name >>),
                          None, Some(purl.val),
                          Some(<< Property("uv:workspace_member", "false"),
                                  Property("uv:source_type", "project"),
                                  Property("uv:project_type", "single") >>)))

create_component_from_package(package, include_hashes) ==
    LET bom_ref == PkgRef(package.id)
        hashes == IF include_hashes
                  THEN (IF package.hashes = << >> THEN None
                        ELSE Some([i \in 1..Len(package.hashes) |->
                                    [alg |-> package.hashes[i].alg,
                                     content |-> package.hashes[i].digest]]))
                  ELSE None
        source_type == package.id.source.kind
        purl == create_purl_from_package(package)
    IN  IF ~purl.ok THEN Err(purl.val)
        ELSE Ok(Component(bom_ref, "library", package.id.name, package.id.version,
                          None, hashes, Some(purl.val),
                          Some(<< Property("uv:workspace_member", "false"),
                                  Property("uv:source_type", source_type) >>)))

\* lock.members() is a BTreeSet: it iterates in name order.
NameOrder == << "app", "lib", "util" >>

MemberSeq(lock) == SelectSeq(NameOrder, LAMBDA n : n \in lock.members)

\* The member loop of create_workspace_components from member i on.
RECURSIVE WorkspaceMemberLoop(_, _, _)
WorkspaceMemberLoop(lock, i, components) ==
    IF i > Len(MemberSeq(lock)) THEN Ok(components)
    ELSE LET found == OkFlatten(find_by_name(lock, MemberSeq(lock)[i]))
         IN  IF found = None THEN WorkspaceMemberLoop(lock, i + 1, components)
             ELSE LET component == create_workspace_member_component(found[1])
                  IN  IF ~component.ok THEN component
                      ELSE WorkspaceMemberLoop(lock, i + 1,
                                               Append(components, component.val))

create_workspace_components(target) ==
    LET lock == target.lock
        members == WorkspaceMemberLoop(lock, 1, << >>)
    IN  IF ~members.ok THEN members
        ELSE IF lock.members = {} /\ root(lock) # None
        THEN LET component == create_single_project_component(root(lock)[1])
             IN  IF ~component.ok THEN component
                 ELSE Ok(Append(members.val, component.val))
        ELSE members

-----------------------------------------------------------------------------
(* Document Assembler: the loop over the filtered list (lines 65-87).      *)

SkipsWorkspaceMember(workspace_member_names, node) ==
    workspace_member_names # {} /\ node.id.name \in workspace_member_names

RECURSIVE DependencyComponentLoop(_, _, _, _, _)
DependencyComponentLoop(target, ns, include_hashes, dependency_components, component_refs) ==
    IF ns = << >>
    THEN Ok([components |-> dependency_components, refs |-> component_refs])
    ELSE IF SkipsWorkspaceMember(target.lock.members, Head(ns))
    THEN DependencyComponentLoop(target, Tail(ns), include_hashes,
                                 dependency_components, component_refs)
    ELSE LET component == create_component_from_package(Head(ns), include_hashes)
         IN  IF ~component.ok THEN component
             ELSE IF component.val.bom_ref \notin component_refs
             THEN DependencyComponentLoop(target, Tail(ns), include_hashes,
                        Append(dependency_components, component.val),
                        component_refs \cup {component.val.bom_ref})
             ELSE DependencyComponentLoop(target, Tail(ns), include_hashes,
                        dependency_components, component_refs)

-----------------------------------------------------------------------------
(* Dependency Graph Projector.                                             *)

Dependency(ref, depends_on) == [ref |-> ref, depends_on |-> depends_on]

\* Lines 402-414: the resolvable workspace members, in member order.
RECURSIVE MemberDeps(_, _)
MemberDeps(lock, i) ==
    IF i > Len(MemberSeq(lock)) THEN << >>
    ELSE LET found == OkFlatten(find_by_name(lock, MemberSeq(lock)[i]))
         IN  (IF found = None THEN << >> ELSE << PkgRef(found[1].id) >>)
             \o MemberDeps(lock, i + 1)

\* RootDeps with the emptiness test of the member set inverted.
RootDepsWhenMembers(lock) ==
    IF lock.members # {} /\ root(lock) # None
    THEN << PkgRef(root(lock)[1].id) >>
    ELSE << >>

\* Lines 416-427.
RootDeps(lock) ==
    IF lock.members = {} /\ root(lock) # None
    THEN << PkgRef(root(lock)[1].id) >>
    ELSE << >>

\* Lines 429-444.
ExternalDeps(lock, ns) ==
    LET kept == SelectSeq(ns, LAMBDA p : p.id.name \notin lock.members)
    IN  [i \in 1..Len(kept) |-> PkgRef(kept[i].id)]

\* PackageDeps without the lookup in the filtered list: every dependency of
\* the package becomes a target.
PackageDepsUnfiltered(ns, package) ==
    [i \in 1..Len(package.dependencies) |-> PkgRef(package.dependencies[i])]

\* Lines 465-483: nodes.iter().map(|n| n.package).find(|p| p.id == dep.package_id)
PackageDeps(ns, package) ==
    LET present == SelectSeq(package.dependencies,
                       LAMBDA dep : \E i \in 1..Len(ns) : ns[i].id = dep)
    IN  [i \in 1..Len(present) |->
            PkgRef((SelectSeq(ns, LAMBDA p : p.id = present[i])[1]).id)]

\* Lines 453-491.
RECURSIVE PackageEdges(_, _)
PackageEdges(ns, i) ==
    IF i > Len(ns) THEN << >>
    ELSE LET package_deps == PackageDeps(ns, ns[i])
         IN  (IF package_deps # << >>
              THEN << Dependency(PkgRef(ns[i].id), package_deps) >>
              ELSE << >>)
             \o PackageEdges(ns, i + 1)

create_dependency_relationships(target, ns, main_bom_ref) ==
    LET lock == target.lock
        main_deps == MemberDeps(lock, 1) \o RootDeps(lock) \o ExternalDeps(lock, ns)
    IN  Ok((IF main_deps # << >> THEN << Dependency(main_bom_ref, main_deps) >> ELSE << >>)
           \o PackageEdges(ns, 1))

-----------------------------------------------------------------------------
(* The document.                                                           *)

Tool == [vendor |-> Some("Astral"), name |-> "uv", version |-> Some("CARGO_PKG_VERSION")]

Metadata(timestamp, main_component) ==
    [timestamp |-> Some(timestamp), tools |-> Some(<< Tool >>),
     component |-> Some(main_component)]

\* jiff::Timestamp::to_string
TimestampString(t) == << "1970-01-01T00:00:0", ToString(t), "Z" >>

\* CycloneDx with both lists always present, empty or not.
CycloneDxAlwaysSome(serial_number, metadata, all_components, deps) ==
    [bom_format |-> "CycloneDX", spec_version |-> "1.5",
     serial_number |-> serial_number, version |-> 1, metadata |-> metadata,
     components |-> Some(all_components),
     dependencies |-> Some(deps)]

\* Lines 107-123.
CycloneDx(serial_number, metadata, all_components, deps) ==
    [bom_format |-> "CycloneDX", spec_version |-> "1.5",
     serial_number |-> serial_number, version |-> 1, metadata |-> metadata,
     components |-> IF all_components = << >> THEN None ELSE Some(all_components),
     dependencies |-> IF deps = << >> THEN None ELSE Some(deps)]

\* Lines 508-520: the keys serde writes for a CycloneDx value
\* (rename_all = "camelCase", skip_serializing_if = "Option::is_none").
SerializedFields(bom) ==
    {"bomFormat", "specVersion", "serialNumber", "version", "metadata"}
    \cup (IF bom.components # None THEN {"components"} ELSE {})
    \cup (IF bom.dependencies # None THEN {"dependencies"} ELSE {})

-----------------------------------------------------------------------------
(* SbomExport::from_lock as a state machine: one action per statement of   *)
(* generate_cyclone_dx_bom.                                                *)

VARIABLES
    target,                 \* the Installable: lock, project name, install dir name
    nodes,                  \* the filtered package list
    include_hashes,
    clock,                  \* the latest instant jiff::Timestamp::now() returned
    pc,                     \* position in generate_cyclone_dx_bom
    bom_ref,
    serial_number,
    main_component,
    workspace_components,
    dependency_components,
    component_refs,
    all_components,
    dependencies,
    result,                 \* what from_lock returned: None, Ok(bom) or Err
    previous                \* the document an earlier export of the same input returned

inputs == << target, nodes, include_hashes >>

vars == << target, nodes, include_hashes, clock, pc, bom_ref, serial_number,
           main_component, workspace_components, dependency_components,
           component_refs, all_components, dependencies, result, previous >>

\* project_name() and install_path().file_name()
Namings ==
    { [project_name |-> Some("proj"), install_name |-> Some("ws")],
      [project_name |-> None, install_name |-> Some("ws")],
      [project_name |-> None, install_name |-> None] }

Targets ==
    {[lock |-> l, project_name |-> n.project_name, install_name |-> n.install_name] :
        l \in Locks, n \in Namings}

Fresh ==
    /\ pc = "start"
    /\ bom_ref = None
    /\ serial_number = None
    /\ main_component = None
    /\ workspace_components = << >>
    /\ dependency_components = << >>
    /\ component_refs = {}
    /\ all_components = << >>
    /\ dependencies = << >>
    /\ result = None

Init ==
    /\ target \in Targets
    /\ nodes \in InjectiveSeqs(Range(target.lock.packages), MaxNodes)
    /\ include_hashes \in BOOLEAN
    /\ clock = 0
    /\ previous = None
    /\ Fresh

\* Lines 54-56: the serial number and the main component's reference.
ReadNow ==
    /\ pc = "start"
    /\ \E now \in clock..MaxTime :
          /\ clock' = now
          /\ bom_ref' = Some(<< "urn:uv-bom:", ToString(now) >>)
          /\ serial_number' = Some(<< "urn:uv-bom-serial:", ToString(now) >>)
    /\ pc' = "main_component"
    /\ UNCHANGED << inputs, main_component, workspace_components,
                    dependency_components, component_refs, all_components,
                    dependencies, result, previous >>

\* Line 59.
CreateMainComponent ==
    /\ pc = "main_component"
    /\ main_component' = Some(create_main_component(target, bom_ref[1]).val)
    /\ pc' = "workspace_components"
    /\ UNCHANGED << inputs, clock, bom_ref, serial_number, workspace_components,
                    dependency_components, component_refs, all_components,
                    dependencies, result, previous >>

\* Line 62; an Err leaves generate_cyclone_dx_bom and from_lock (line 43).
CreateWorkspaceComponents ==
    /\ pc = "workspace_components"
    /\ LET r == create_workspace_components(target)
       IN  IF r.ok
           THEN /\ workspace_components' = r.val
                /\ pc' = "dependency_components"
                /\ result' = result
           ELSE /\ workspace_components' = workspace_components
                /\ pc' = "error"
                /\ result' = Some(Err(r.val))
    /\ UNCHANGED << inputs, clock, bom_ref, serial_number, main_component,
                    dependency_components, component_refs, all_components,
                    dependencies, previous >>

\* Lines 65-87.
CreateDependencyComponents ==
    /\ pc = "dependency_components"
    /\ LET r == DependencyComponentLoop(target, nodes, include_hashes, << >>, {})
       IN  IF r.ok
           THEN /\ dependency_components' = r.val.components
                /\ component_refs' = r.val.refs
                /\ pc' = "combine"
                /\ result' = result
           ELSE /\ UNCHANGED << dependency_components, component_refs >>
                /\ pc' = "error"
                /\ result' = Some(Err(r.val))
    /\ UNCHANGED << inputs, clock, bom_ref, serial_number, main_component,
                    workspace_components, all_components, dependencies, previous >>

\* Lines 89-91.
CombineComponents ==
    /\ pc = "combine"
    /\ all_components' = workspace_components \o dependency_components
    /\ pc' = "relationships"
    /\ UNCHANGED << inputs, clock, bom_ref, serial_number, main_component,
                    workspace_components, dependency_components, component_refs,
                    dependencies, result, previous >>

\* Lines 93-95.
CreateDependencyRelationships ==
    /\ pc = "relationships"
    /\ dependencies' =
          create_dependency_relationships(target, nodes, main_component[1].bom_ref).val
    /\ pc' = "assemble"
    /\ UNCHANGED << inputs, clock, bom_ref, serial_number, main_component,
                    workspace_components, dependency_components, component_refs,
                    all_components, result, previous >>

\* Lines 97-125: the second timestamp read, the metadata and the document.
AssembleBom ==
    /\ pc = "assemble"
    /\ \E t \in clock..MaxTime :
          /\ clock' = t
          /\ result' = Some(Ok(CycloneDx(serial_number[1],
                                         Metadata(TimestampString(t), main_component[1]),
                                         all_components, dependencies)))
    /\ pc' = "done"
    /\ UNCHANGED << inputs, bom_ref, serial_number, main_component,
                    workspace_components, dependency_components, component_refs,
                    all_components, dependencies, previous >>

\* A caller exports the same lock with the same options once more.
ExportAgain ==
    /\ pc = "done"
    /\ previous = None
    /\ previous' = Some(result[1].val)
    /\ pc' = "start"
    /\ bom_ref' = None
    /\ serial_number' = None
    /\ main_component' = None
    /\ workspace_components' = << >>
    /\ dependency_components' = << >>
    /\ component_refs' = {}
    /\ all_components' = << >>
    /\ dependencies' = << >>
    /\ result' = None
    /\ UNCHANGED << inputs, clock >>

Next ==
    \/ ReadNow
    \/ CreateMainComponent
    \/ CreateWorkspaceComponents
    \/ CreateDependencyComponents
    \/ CombineComponents
    \/ CreateDependencyRelationships
    \/ AssembleBom

Spec == Init /\ [][Next]_vars

NextRepeat == Next \/ ExportAgain

InitRepeat == Init /\ Len(nodes) <= MaxRepeatNodes

SpecRepeat == InitRepeat /\ [][NextRepeat]_vars

-----------------------------------------------------------------------------
(* The exported document and what the claims read from it.                 *)

Done == pc = "done"

Bom == result[1].val

Components(bom) == IF bom.components = None THEN << >> ELSE bom.components[1]

Dependencies(bom) == IF bom.dependencies = None THEN << >> ELSE bom.dependencies[1]

MainRef(bom) == bom.metadata.component[1].bom_ref

ComponentRefSet(bom) == {Components(bom)[i].bom_ref : i \in 1..Len(Components(bom))}

NoRepeats(s) == \A i, j \in 1..Len(s) : s[i] = s[j] => i = j

\* The packages the lock's by-name lookup resolves the member names to.
ResolvedMembers ==
    {p \in Range(target.lock.packages) :
        /\ p.id.name \in target.lock.members
        /\ OkFlatten(find_by_name(target.lock, p.id.name)) = Some(p)}

\* The single root package of a lock without workspace members.
SingleRoot ==
    IF target.lock.members = {} /\ root(target.lock) # None
    THEN {root(target.lock)[1]}
    ELSE {}

\* The filtered packages that are not workspace members.
ExternalNodes == {p \in Range(nodes) : p.id.name \notin target.lock.members}

\* A member name the by-name lookup does not resolve although a package of
\* that name is in the filtered list.
UnresolvedMemberNode(p) ==
    /\ p.id.name \in target.lock.members
    /\ OkFlatten(find_by_name(target.lock, p.id.name)) = None

\* C1: every ref and every dependsOn identifier of the document is the main
\* component's bom-ref or the bom-ref of a component in components (no
\* dangling reference), also when a member name is not resolved by the lock's
\* by-name lookup while a package of that name is in the filtered list.
C1_NoDanglingReference ==
    Done =>
        LET known == {MainRef(Bom)} \cup ComponentRefSet(Bom)
            deps == Dependencies(Bom)
        IN  \A i \in 1..Len(deps) :
                /\ deps[i].ref \in known
                /\ \A k \in 1..Len(deps[i].depends_on) : deps[i].depends_on[k] \in known

\* C2: the bom-refs of the entries of components are pairwise distinct; each
\* workspace member and the single root package appears exactly once, even
\* when it is also in the filtered list.
C2_ComponentRefsDistinct ==
    Done => Cardinality(ComponentRefSet(Bom)) = Len(Components(Bom))

\* C3: the root edge's dependsOn is exactly the union of the workspace-member
\* identifiers, the single root package's identifier and the identifiers of
\* the non-workspace packages of the filtered list, each listed once; the
\* root edge is emitted only if that union is non-empty.
C3_RootEdgeIsUnionWithoutRepeats ==
    Done =>
        LET union == {PkgRef(p.id) : p \in ResolvedMembers \cup SingleRoot \cup ExternalNodes}
            deps == Dependencies(Bom)
            rootEdges == {i \in 1..Len(deps) : deps[i].ref = MainRef(Bom)}
        IN  IF union = {} THEN rootEdges = {}
            ELSE /\ rootEdges = {1}
                 /\ Range(deps[1].depends_on) = union
                 /\ NoRepeats(deps[1].depends_on)

\* C4: the bom-ref of every workspace-member and external component is the
\* string the Package-URL Builder produces for the package, i.e. it equals
\* the component's purl, with the vcs_url / download_url suffix of a Git /
\* Direct-URL package.
C4_BomRefIsPurl ==
    Done =>
        \A i \in 1..Len(Components(Bom)) :
            Components(Bom)[i].purl = Some(Components(Bom)[i].bom_ref)

\* The document with the two fields the claim lets vary blanked.
MaskSerialAndTimestamp(bom) ==
    [bom EXCEPT !.serial_number = None, !.metadata.timestamp = None]

\* The document with every field derived from a clock read blanked: the
\* serial number, the timestamp, the main component's bom-ref and the root
\* edge's ref, which repeats that bom-ref.
MaskClockDerived(bom) ==
    [bom EXCEPT
        !.serial_number = None,
        !.metadata.timestamp = None,
        !.metadata.component = Some([@[1] EXCEPT !.bom_ref = None]),
        !.dependencies =
            IF @ = None THEN None
            ELSE Some([i \in 1..Len(@[1]) |->
                        IF @[1][i].ref = MainRef(bom)
                        THEN [@[1][i] EXCEPT !.ref = None]
                        ELSE @[1][i]])]

\* C5 (as claimed): two exports of the same input at different moments differ
\* in at most serialNumber and metadata.timestamp.
C5_RepeatDiffersOnlyInSerialAndTimestamp ==
    (Done /\ previous # None) =>
        MaskSerialAndTimestamp(previous[1]) = MaskSerialAndTimestamp(Bom)

\* C5 (amended): two exports of the same input at different moments differ in
\* at most serialNumber, metadata.timestamp, the main component's bom-ref and
\* the ref of the root dependency entry (the same bom-ref); every component,
\* every other ref and every dependsOn entry is identical.
C5_RepeatDiffersOnlyInClockDerivedFields ==
    (Done /\ previous # None) =>
        MaskClockDerived(previous[1]) = MaskClockDerived(Bom)

C5_Witness ==
    /\ Done
    /\ previous # None
    /\ previous[1].serial_number # Bom.serial_number
    /\ previous[1].metadata.timestamp # Bom.metadata.timestamp
    /\ Len(Components(Bom)) >= 2
    /\ Len(Dependencies(Bom)) >= 2

\* A Git or Direct-URL package whose recorded location is no URL.
BadLocation(p) ==
    /\ p.id.source.kind \in {"git", "direct"}
    /\ ~to_url(p.id.source.loc).ok

\* The exported set: the filtered list, the workspace members, the single root.
ExportedSet == Range(nodes) \cup ResolvedMembers \cup SingleRoot

\* C6: the export fails, with no document, exactly when a Git or Direct-URL
\* package of the exported set has a location that is no well-formed URL.
C6_FailsExactlyOnBadLocation ==
    (pc \in {"done", "error"}) =>
        /\ (pc = "error") <=> (\E p \in ExportedSet : BadLocation(p))
        /\ result # None
        /\ (pc = "error") <=> ~result[1].ok

\* C7: components / dependencies is absent from the output exactly when the
\* assembled component / edge list is empty, and never an empty array; a lock
\* with no packages and no members yields neither field.
C7_EmptyListsAreAbsent ==
    Done =>
        /\ ("components" \in SerializedFields(Bom)) <=> (all_components # << >>)
        /\ ("dependencies" \in SerializedFields(Bom)) <=> (dependencies # << >>)
        /\ Bom.components \in {None, Some(all_components)}
        /\ Bom.dependencies \in {None, Some(dependencies)}
        /\ Bom.components # Some(<< >>)
        /\ Bom.dependencies # Some(<< >>)
        /\ (target.lock.packages = << >> /\ target.lock.members = {}) =>
              SerializedFields(Bom) \cap {"components", "dependencies"} = {}

C7_Witness ==
    /\ Done
    /\ target.lock.packages = << >>
    /\ target.lock.members = {}
    /\ "components" \notin SerializedFields(Bom)
    /\ "dependencies" \notin SerializedFields(Bom)

\* The identities of the filtered list.
NodeIds == {nodes[i].id : i \in 1..Len(nodes)}

\* The identifiers of node i's direct dependencies that are in the filtered
\* list, in the package's dependency order.
EdgeTargets(i) ==
    LET kept == SelectSeq(nodes[i].dependencies, LAMBDA d : d \in NodeIds)
    IN  [k \in 1..Len(kept) |-> PkgRef(kept[k])]

\* The positions of the filtered list with at least one such dependency.
Emitting ==
    SelectSeq([i \in 1..Len(nodes) |-> i], LAMBDA i : EdgeTargets(i) # << >>)

\* The document's edges after the root edge.
PackageEdgesOf(bom) ==
    LET deps == Dependencies(bom)
    IN  IF deps # << >> /\ deps[1].ref = MainRef(bom) THEN Tail(deps) ELSE deps

\* C8: for every package of the filtered list, workspace members included,
\* the per-package edge has the package's identifier as ref and the
\* identifiers of exactly its direct dependencies present in the filtered
\* list as dependsOn, in dependency order; the edge is emitted iff that list
\* is non-empty.  The identifier is pkg:pypi/<name>@<version or "unknown">.
C8_PackageEdgesMirrorFilteredDependencies ==
    Done =>
        LET edges == PackageEdgesOf(Bom)
        IN  /\ Len(edges) = Len(Emitting)
            /\ \A k \in 1..Len(Emitting) :
                  /\ edges[k].ref = PkgRef(nodes[Emitting[k]].id)
                  /\ edges[k].depends_on = EdgeTargets(Emitting[k])

C8_Witness ==
    /\ Done
    /\ \E i \in 1..Len(nodes) :
          /\ Len(EdgeTargets(i)) >= 2
          /\ Len(EdgeTargets(i)) < Len(nodes[i].dependencies)
          /\ nodes[i].id.name \in target.lock.members
    /\ \E i \in 1..Len(nodes) :
          /\ nodes[i].dependencies # << >>
          /\ EdgeTargets(i) = << >>
    /\ Len(PackageEdgesOf(Bom)) = 1

\* C9: every package of the filtered list that is not a workspace member is
\* described by a component carrying its name, version and purl; two
\* packages with one name and version but different sources both are.
C9_ExternalPackagesHaveComponents ==
    Done =>
        \A p \in ExternalNodes :
            \E i \in 1..Len(Components(Bom)) :
                /\ Components(Bom)[i].name = p.id.name
                /\ Components(Bom)[i].version = p.id.version
                /\ Components(Bom)[i].purl = Some(create_purl_from_package(p).val)

\* C10: the refs of the entries of dependencies are pairwise distinct.
C10_EdgeRefsDistinct ==
    Done =>
        NoRepeats([i \in 1..Len(Dependencies(Bom)) |-> Dependencies(Bom)[i].ref])

\* The identifiers the root edge lists; none when the document has no root edge.
RootEdgeTargets(bom) ==
    LET deps == Dependencies(bom)
    IN  IF deps # << >> /\ deps[1].ref = MainRef(bom)
        THEN Range(deps[1].depends_on)
        ELSE {}

\* C11: the set of bom-refs of the entries of components equals the set of
\* identifiers in the root edge's dependsOn, and components is absent exactly
\* when the document has no root edge.
C11_ComponentsAgreeWithRootEdge ==
    Done =>
        /\ ComponentRefSet(Bom) = RootEdgeTargets(Bom)
        /\ (Bom.components = None) <=>
              (\A i \in 1..Len(Dependencies(Bom)) : Dependencies(Bom)[i].ref # MainRef(Bom))

C11_Witness ==
    /\ Done
    /\ ResolvedMembers # {}
    /\ ExternalNodes # {}
    /\ \E i \in 1..Len(nodes) : UnresolvedMemberNode(nodes[i])
    /\ Cardinality(ComponentRefSet(Bom)) >= 2
    /\ ComponentRefSet(Bom) = RootEdgeTargets(Bom)

=============================================================================
